---- MODULE Spec2Model ----
(***************************************************************************)
(* AuraTask: notification scheduling around the task lifecycle.            *)
(*                                                                         *)
(* The model covers the task endpoints (api/tasks.py, crud/task.py), the   *)
(* subtask toggle with its auto-complete (crud/subtasks.py), the           *)
(* notification settings endpoints (api/notifications.py), the scheduler   *)
(* (services/notification_scheduler.py) and the Celery delivery task       *)
(* (workers/notification_sender.py).                                       *)
(*                                                                         *)
(* Time is counted in hours.  The tables hold instants without tzinfo, as  *)
(* MySQL returns them; datetime.now(timezone.utc) carries one.             *)
(*                                                                         *)
(* The Celery runtime is modelled by what the two calls the scheduler      *)
(* makes do:                                                               *)
(*   apply_async(task_id=k, eta=e)  publishes a message; the worker keeps  *)
(*       it until e, unless k is in its set of revoked ids, in which case  *)
(*       the message is discarded when the worker receives it;             *)
(*   control.revoke(k)  adds k to the worker's set of revoked ids; every   *)
(*       message with that id, already held or arriving later, is          *)
(*       discarded instead of executed.                                    *)
(* Both calls raise when the broker cannot be reached; whether it can is   *)
(* an input (up) of every request that calls the runtime.                  *)
(*                                                                         *)
(* Spec runs each request and each worker run as one step; SpecConc runs   *)
(* the requests on one task and the delivery handler statement by          *)
(* statement, side by side; SpecSchedule calls the scheduler once on any   *)
(* task and settings; SpecRescan runs the two urgency jobs                 *)
(* (workers/urgency_updater.py) in the steps of their session, side by     *)
(* side with the requests that complete and delete tasks; SpecCreate runs  *)
(* POST /tasks/ in two steps, the handler and the commit of get_db, side   *)
(* by side with the worker; SpecScore stores tasks through                 *)
(* crud.create_task at any due date and priority, for the urgency scorer   *)
(* (services/urgency_scorer.py).                                           *)
(***************************************************************************)
EXTENDS Integers, Sequences, FiniteSets, TLC

\* ---------------------------------------------------------------- bounds
MaxTasks == 1
MaxTime == 1
MaxSubtasks == 1
MaxInflight == 2

\* ------------------------------------------------------ program constants
Hours24 == 24
Hours1 == 1
\* @shared_task(bind=True, max_retries=3, default_retry_delay=60)
max_retries == 3

None == -1

TaskIds == 1 .. MaxTasks
Users == {1}
Instants == 0 .. MaxTime

\* due dates a request may carry: one an hour after the start, and one whose
\* 24-hour reminder falls inside the modelled time span
DueDates == {1, Hours24 + 1}

\* the status a PUT /tasks/{id} may carry: one that reopens, one that ends
UpdateStatuses == {"PENDING", "COMPLETED"}

\* snooze durations a request may carry (hours, within 5..1440 minutes)
SnoozeHours == {1}

TaskStatus == {"PENDING", "IN_PROGRESS", "COMPLETED", "CANCELLED"}
Terminal == {"COMPLETED", "CANCELLED"}
Channels == {"EMAIL", "TELEGRAM", "DISCORD"}

\* NotificationSettings(user_id=user_id, email_enabled=True) with the column
\* defaults of the model
DefaultSettings ==
    [email_enabled |-> TRUE, email_address |-> FALSE,
     telegram_enabled |-> FALSE, telegram_chat_id |-> FALSE,
     discord_enabled |-> FALSE, discord_webhook_url |-> FALSE,
     notify_1hr_before |-> TRUE, notify_24hr_before |-> TRUE]

\* the row crud.create_user adds with every user it registers
RegisteredSettings ==
    [email_enabled |-> TRUE, email_address |-> TRUE,
     telegram_enabled |-> FALSE, telegram_chat_id |-> FALSE,
     discord_enabled |-> FALSE, discord_webhook_url |-> FALSE,
     notify_1hr_before |-> TRUE, notify_24hr_before |-> TRUE]

\* the rows a PUT /settings may leave behind: every value of the two toggles,
\* the channels as registration left them
SettingsChoices ==
    { [RegisteredSettings EXCEPT !.notify_24hr_before = a, !.notify_1hr_before = b]
        : a \in BOOLEAN, b \in BOOLEAN }

VARIABLES
    now,        \* datetime.now(timezone.utc), in hours
    tasks,      \* table tasks: id -> row
    nextId,     \* AUTO_INCREMENT of tasks.id
    subtasks,   \* table subtasks: task id -> sequence of is_completed
    settings,   \* table notification_settings: user id -> row
    logs,       \* table notification_logs, in insertion order
    queue,      \* messages the Celery worker holds until their ETA
    revoked,    \* the worker's set of revoked task ids
    last,       \* the last request or worker run: what it did and returned
    inflight,   \* the requests under way side by side, each at its own step
    sending,    \* the run of send_task_reminder under way in the worker
    scan        \* the urgency job under way in the worker

vars == <<now, tasks, nextId, subtasks, settings, logs, queue, revoked,
          last, inflight, sending, scan>>

\* -------------------------------------------------------------- datetime
\* a datetime as Python holds it: the instant, and whether it carries a tzinfo
datetime(t, aware) == [t |-> t, tzinfo |-> aware]

\* a DateTime column read back from MySQL: the stored instant without tzinfo
column(t) == datetime(t, FALSE)

\* datetime.now(timezone.utc)
utcnow == datetime(now, TRUE)

\* a > b on datetimes: Python raises TypeError when exactly one is naive
datetime_gt(a, b) ==
    IF a.tzinfo # b.tzinfo THEN "TypeError"
    ELSE IF a.t > b.t THEN "True" ELSE "False"

\* a != b on datetimes: a naive and an aware datetime are never equal
datetime_ne(a, b) == a.tzinfo # b.tzinfo \/ a.t # b.t

\* ----------------------------------------------------------- celery_app
\* a bug get_predictable_task_id could have: the reminder type is left out of
\* the id
get_predictable_task_id_without_type(task_id, reminder_type) ==
    <<"notify", "", task_id>>

\* f"notify_{reminder_type}_{task_id}"
get_predictable_task_id(task_id, reminder_type) ==
    <<"notify", reminder_type, task_id>>

\* the worker drops a received message whose id it has been told to revoke
apply_async(q, rv, msg) == IF msg.task_id \in rv THEN q ELSE q \cup {msg}

RECURSIVE publish_all(_, _, _)
publish_all(q, rv, msgs) ==
    IF msgs = <<>> THEN q
    ELSE publish_all(apply_async(q, rv, Head(msgs)), rv, Tail(msgs))

\* -------------------------------------------------- NotificationScheduler
\* one pass through a branch of schedule_task_notifications: the message
\* apply_async publishes and the pair appended to scheduled_tasks
Submission(id, rtype, suffix, eta) ==
    [msg |-> [args |-> <<id, rtype>>, eta |-> eta,
              task_id |-> get_predictable_task_id(id, suffix), retries |-> 0],
     entry |-> <<rtype, get_predictable_task_id(id, suffix)>>]

schedule_24hr(id, due_date, st, n) ==
    IF st.notify_24hr_before /\ due_date - Hours24 > n
    THEN << Submission(id, "24_HOUR", "24hr", due_date - Hours24) >> ELSE << >>

schedule_1hr(id, due_date, st, n) ==
    IF st.notify_1hr_before /\ due_date - Hours1 > n
    THEN << Submission(id, "1_HOUR", "1hr", due_date - Hours1) >> ELSE << >>

\* a bug schedule_at_due could have: a due date equal to now counts as future
schedule_at_due_not_strict(id, due_date, st, n) ==
    IF due_date >= n
    THEN << Submission(id, "AT_DUE", "at_due", due_date) >> ELSE << >>

\* a bug schedule_at_due could have: the reminder hangs on the 1-hour toggle
schedule_at_due_if_toggled(id, due_date, st, n) ==
    IF st.notify_1hr_before /\ due_date > n
    THEN << Submission(id, "AT_DUE", "at_due", due_date) >> ELSE << >>

schedule_at_due(id, due_date, st, n) ==
    IF due_date > n
    THEN << Submission(id, "AT_DUE", "at_due", due_date) >> ELSE << >>

\* schedule_task_notifications(task, user_settings) at instant n: what it
\* submits and returns, in order
schedule_task_notifications(id, due_date, st, n) ==
    schedule_24hr(id, due_date, st, n) \o schedule_1hr(id, due_date, st, n)
        \o schedule_at_due(id, due_date, st, n)

\* the messages submitted, and the list returned
Messages(subs) == [i \in DOMAIN subs |-> subs[i].msg]
scheduled_tasks(subs) == [i \in DOMAIN subs |-> subs[i].entry]

\* a bug revoke_task_notifications could have: the ids are built from the
\* reminder types, not from the suffixes the scheduler uses
revoke_by_reminder_type(id) ==
    << get_predictable_task_id(id, "1_HOUR"),
       get_predictable_task_id(id, "24_HOUR"),
       get_predictable_task_id(id, "AT_DUE") >>

\* a bug revoke_task_notifications could have: the AT_DUE id is left out
revoke_without_at_due(id) ==
    << get_predictable_task_id(id, "1hr"),
       get_predictable_task_id(id, "24hr"),
       get_predictable_task_id(id, "24hr") >>

\* the ids revoke_task_notifications revokes, in call order
revoke_task_notifications(id) ==
    << get_predictable_task_id(id, "1hr"),
       get_predictable_task_id(id, "24hr"),
       get_predictable_task_id(id, "at_due") >>

SeqRange(s) == { s[i] : i \in DOMAIN s }

RevokeCalls(id) ==
    [i \in 1 .. 3 |-> [fn |-> "revoke", task_id |-> revoke_task_notifications(id)[i],
                       eta |-> None]]

SubmitCalls(subs) ==
    [i \in DOMAIN subs |-> [fn |-> "apply_async", task_id |-> subs[i].msg.task_id,
                            eta |-> subs[i].msg.eta]]

\* a bug reschedule_task_notifications could have: it submits, then revokes
reschedule_submit_first(id, subs) == SubmitCalls(subs) \o RevokeCalls(id)

\* reschedule_task_notifications(task, user_settings): the calls it makes on
\* the runtime, revoke_task_notifications first, schedule_task_notifications
\* after it
reschedule_task_notifications(id, subs) == RevokeCalls(id) \o SubmitCalls(subs)

\* the pending work items of a task: held messages the worker will execute
Pending(id) == { m \in queue : m.args[1] = id /\ m.task_id \notin revoked }

\* ------------------------------------------------------------- requests
\* whether the broker can be reached (up) is an input of a request only when
\* the request calls the runtime; one that does not is indifferent to it
Reach(calls_runtime, up) == IF calls_runtime THEN TRUE ELSE up

NoRun == [outcome |-> "-", kind |-> "-", attempted |-> {}, rows |-> {}]

Response(op, u, id, code, old, calls, result) ==
    [op |-> op, task_id |-> id, code |-> code, calls |-> calls,
     result |-> result, run |-> NoRun]

\* the request slots of the API server, and a slot no request occupies
Slots == 1 .. MaxInflight

NoRow == [user_id |-> 0, status |-> "-", due_date |-> None, due_date_tzinfo |-> TRUE,
          snoozed_until |-> None]

Idle == [op |-> "-", pc |-> "idle", task_id |-> 0, task |-> NoRow, lock |-> FALSE,
         upd_due |-> None, upd_status |-> "-", calls |-> << >>, code |-> 0]

\* the worker between two runs of send_task_reminder
NoSend == [pc |-> "idle", m |-> << >>, attempted |-> {}, ok |-> {}]

\* the worker between two urgency jobs
NoScan == [job |-> "-", rows |-> << >>, current_time |-> None]

Init ==
    /\ inflight = [r \in Slots |-> Idle]
    /\ sending = NoSend
    /\ scan = NoScan
    /\ now = 0
    /\ tasks = << >>
    /\ nextId = 1
    /\ subtasks = << >>
    /\ settings = [u \in Users |-> RegisteredSettings]
    /\ logs = << >>
    /\ queue = {}
    /\ revoked = {}
    /\ last = Response("init", 0, 0, 0, "-", << >>, << >>)

\* Task(...) as crud.create_task builds it: a due date without tzinfo is given
\* UTC before the row is made.  due_date_tzinfo tells whether the value last
\* assigned to due_date carried a tzinfo.
NewTask(u, due) ==
    [user_id |-> u, status |-> "PENDING", due_date |-> due, due_date_tzinfo |-> TRUE,
     snoozed_until |-> None]

\* POST /tasks/ : create_task, then schedule when the user has settings.  An
\* exception from apply_async leaves the endpoint, and get_db rolls back.
create_new_task(u, due, up) ==
    /\ nextId <= MaxTasks
    /\ nextId' = nextId + 1
    /\ LET id == nextId
           msgs == IF u \in DOMAIN settings
                   THEN schedule_task_notifications(id, due, settings[u], now)
                   ELSE << >>
       IN  /\ Reach(msgs # << >>, up)
           /\ IF msgs # << >> /\ ~up
              THEN /\ last' = Response("create", u, id, 500, "-", << >>, << >>)
                   /\ UNCHANGED <<tasks, subtasks, queue>>
              ELSE /\ tasks' = (id :> NewTask(u, due)) @@ tasks
                   /\ subtasks' = (id :> << >>) @@ subtasks
                   /\ queue' = publish_all(queue, revoked, Messages(msgs))
                   /\ last' = Response("create", u, id, 201, "-",
                                       SubmitCalls(msgs), scheduled_tasks(msgs))
    /\ UNCHANGED <<now, settings, logs, revoked, inflight, sending, scan>>

CreateTask ==
    \E u \in Users, due \in DueDates, up \in BOOLEAN : create_new_task(u, due, up)

NotFound(u, id) == IF id \in DOMAIN tasks THEN tasks[id].user_id # u ELSE TRUE

Rejected(op, u, id) ==
    /\ NotFound(u, id)
    /\ last' = Response(op, u, id, 404, "-", << >>, << >>)
    /\ UNCHANGED <<now, tasks, nextId, subtasks, settings, logs, queue,
                   revoked, inflight, sending, scan>>

\* revoke_notifications(id) succeeded: the three ids are revoked
Revoked(rv, id) == rv \cup SeqRange(revoke_task_notifications(id))

\* crud.update_task: setattr for every field the body carries
update_task(task, upd_due, upd_aware, upd_status) ==
    [task EXCEPT !.due_date = IF upd_due = None THEN @ ELSE upd_due,
                 !.due_date_tzinfo = IF upd_due = None THEN @ ELSE upd_aware,
                 !.status = IF upd_status = "-" THEN @ ELSE upd_status]

\* PUT /tasks/{id} : reschedule only when the due date changes and the user
\* has settings
update_existing_task(u, id, upd_due, upd_aware, upd_status, up) ==
    /\ ~NotFound(u, id)
    /\ LET task == tasks[id]
           due_date_changed ==
               /\ upd_due # None
               /\ datetime_ne(datetime(upd_due, upd_aware), column(task.due_date))
           updated_task == update_task(task, upd_due, upd_aware, upd_status)
           reschedule == due_date_changed /\ u \in DOMAIN settings
           msgs == IF reschedule
                   THEN schedule_task_notifications(id, updated_task.due_date,
                                                    settings[u], now)
                   ELSE << >>
       IN  /\ Reach(reschedule, up)
           /\ IF reschedule /\ ~up
              THEN /\ last' = Response("update", u, id, 500, task.status, << >>, << >>)
                   /\ UNCHANGED <<tasks, queue, revoked>>
              ELSE /\ tasks' = [tasks EXCEPT ![id] = updated_task]
                   /\ revoked' = IF reschedule THEN Revoked(revoked, id) ELSE revoked
                   /\ queue' = publish_all(queue, revoked', Messages(msgs))
                   /\ last' = Response("update", u, id, 200, task.status,
                                       IF reschedule
                                       THEN reschedule_task_notifications(id, msgs)
                                       ELSE << >>,
                                       scheduled_tasks(msgs))
    /\ UNCHANGED <<now, nextId, subtasks, settings, logs, inflight, sending, scan>>

\* the bodies a PUT /tasks/{id} may carry: a due date, with or without an
\* offset, or a status
UpdateBodies ==
    { [due_date |-> d, aware |-> a, status |-> "-"] : d \in DueDates, a \in BOOLEAN }
    \cup { [due_date |-> None, aware |-> TRUE, status |-> st] : st \in UpdateStatuses }

UpdateTask ==
    \E u \in Users, id \in TaskIds :
        \/ Rejected("update", u, id)
        \/ \E updates \in UpdateBodies, up \in BOOLEAN :
               update_existing_task(u, id, updates.due_date, updates.aware,
                                    updates.status, up)

\* crud.update_task_status: the second component of its result
should_cancel_notifications(old_status, new_status) ==
    new_status \in Terminal /\ old_status \notin Terminal

\* PATCH /tasks/{id}/status and POST /tasks/{id}/complete
set_status(op, u, id, new_status, up) ==
    /\ ~NotFound(u, id)
    /\ LET task == tasks[id]
           should_cancel == should_cancel_notifications(task.status, new_status)
       IN  /\ Reach(should_cancel, up)
           /\ IF should_cancel /\ ~up
              THEN /\ last' = Response(op, u, id, 500, task.status, << >>, << >>)
                   /\ UNCHANGED <<tasks, revoked>>
              ELSE /\ tasks' = [tasks EXCEPT ![id].status = new_status]
                   /\ revoked' = IF should_cancel THEN Revoked(revoked, id) ELSE revoked
                   /\ last' = Response(op, u, id, 200, task.status,
                                       IF should_cancel THEN RevokeCalls(id) ELSE << >>,
                                       << >>)
    /\ UNCHANGED <<now, nextId, subtasks, settings, logs, queue, inflight,
                   sending, scan>>

ChangeStatus ==
    \E u \in Users, id \in TaskIds :
        \/ Rejected("status", u, id)
        \/ \E new_status \in TaskStatus, up \in BOOLEAN :
               set_status("status", u, id, new_status, up)

CompleteTask ==
    \E u \in Users, id \in TaskIds :
        \/ Rejected("complete", u, id)
        \/ \E up \in BOOLEAN : set_status("complete", u, id, "COMPLETED", up)

\* POST /tasks/{id}/snooze
snooze_task_endpoint(u, id, hours) ==
    /\ ~NotFound(u, id)
    /\ now + hours <= MaxTime + 1
    /\ tasks' = [tasks EXCEPT ![id].snoozed_until = now + hours]
    /\ last' = Response("snooze", u, id, 200, tasks[id].status, << >>, << >>)
    /\ UNCHANGED <<now, nextId, subtasks, settings, logs, queue, revoked,
                   inflight, sending, scan>>

SnoozeTask ==
    \E u \in Users, id \in TaskIds :
        \/ Rejected("snooze", u, id)
        \/ \E hours \in SnoozeHours : snooze_task_endpoint(u, id, hours)

Without(f, id) == [k \in DOMAIN f \ {id} |-> f[k]]

\* DELETE /tasks/{id} : revoke first, then delete the row; subtasks and
\* notification logs go with it
delete_task_endpoint(u, id, up) ==
    /\ ~NotFound(u, id)
    /\ IF ~up
       THEN /\ last' = Response("delete", u, id, 500, tasks[id].status, << >>, << >>)
            /\ UNCHANGED <<tasks, subtasks, logs, revoked>>
       ELSE /\ revoked' = Revoked(revoked, id)
            /\ tasks' = Without(tasks, id)
            /\ subtasks' = Without(subtasks, id)
            /\ logs' = SelectSeq(logs, LAMBDA r : r.task_id # id)
            /\ last' = Response("delete", u, id, 204, tasks[id].status,
                                RevokeCalls(id), << >>)
    /\ UNCHANGED <<now, nextId, settings, queue, inflight, sending, scan>>

DeleteTask ==
    \E u \in Users, id \in TaskIds :
        \/ Rejected("delete", u, id)
        \/ \E up \in BOOLEAN : delete_task_endpoint(u, id, up)

\* POST /tasks/{id}/subtasks
add_subtask_endpoint(u, id) ==
    /\ ~NotFound(u, id)
    /\ Len(subtasks[id]) < MaxSubtasks
    /\ subtasks' = [subtasks EXCEPT ![id] = Append(@, FALSE)]
    /\ last' = Response("add_subtask", u, id, 201, tasks[id].status, << >>, << >>)
    /\ UNCHANGED <<now, tasks, nextId, settings, logs, queue, revoked,
                   inflight, sending, scan>>

AddSubtask == \E u \in Users, id \in TaskIds : add_subtask_endpoint(u, id)

\* crud.check_auto_complete_task: whether the parent is to be completed
auto_complete(subs, status) ==
    /\ subs # << >>
    /\ \A i \in DOMAIN subs : subs[i]
    /\ status \notin Terminal

\* PATCH /subtasks/{id}/toggle
toggle_subtask_endpoint(u, id, i, up) ==
    /\ ~NotFound(u, id)
    /\ i \in DOMAIN subtasks[id]
    /\ LET subs == [subtasks[id] EXCEPT ![i] = ~@]
           complete == auto_complete(subs, tasks[id].status)
       IN  /\ Reach(complete, up)
           /\ IF complete /\ ~up
              THEN /\ last' = Response("toggle", u, id, 500, tasks[id].status, << >>, << >>)
                   /\ UNCHANGED <<tasks, subtasks, revoked>>
              ELSE /\ subtasks' = [subtasks EXCEPT ![id] = subs]
                   /\ tasks' = IF complete
                               THEN [tasks EXCEPT ![id].status = "COMPLETED"]
                               ELSE tasks
                   /\ revoked' = IF complete THEN Revoked(revoked, id) ELSE revoked
                   /\ last' = Response("toggle", u, id, 200, tasks[id].status,
                                       IF complete THEN RevokeCalls(id) ELSE << >>,
                                       << >>)
    /\ UNCHANGED <<now, nextId, settings, logs, queue, inflight, sending, scan>>

ToggleSubtask ==
    \E u \in Users, id \in TaskIds, i \in 1 .. MaxSubtasks, up \in BOOLEAN :
        toggle_subtask_endpoint(u, id, i, up)

\* -------------------------------------------------------------- settings
\* the row of the user, created with the defaults when there is none (every
\* registered user has one)
get_or_create_settings(u) ==
    IF u \in DOMAIN settings THEN settings[u] ELSE DefaultSettings

\* GET /notifications/settings
GetSettings ==
    \E u \in Users :
        /\ settings' = (u :> get_or_create_settings(u)) @@ settings
        /\ last' = Response("get_settings", u, 0, 200, "-", << >>, << >>)
        /\ UNCHANGED <<now, tasks, nextId, subtasks, logs, queue, revoked,
                       inflight, sending, scan>>

\* PUT /notifications/settings
UpdateSettings ==
    \E u \in Users, body \in SettingsChoices :
        /\ settings' = (u :> body) @@ settings
        /\ last' = Response("put_settings", u, 0, 200, "-", << >>, << >>)
        /\ UNCHANGED <<now, tasks, nextId, subtasks, logs, queue, revoked,
                       inflight, sending, scan>>

\* ------------------------------------------------------ delivery handler
\* a bug enabled_channels could have: with the two reminder toggles off the
\* handler sends on no channel
enabled_channels_when_toggled(st) ==
    IF ~st.notify_24hr_before /\ ~st.notify_1hr_before THEN {}
    ELSE (IF st.email_enabled /\ st.email_address THEN {"EMAIL"} ELSE {})
         \cup (IF st.telegram_enabled /\ st.telegram_chat_id THEN {"TELEGRAM"} ELSE {})
         \cup (IF st.discord_enabled /\ st.discord_webhook_url THEN {"DISCORD"} ELSE {})

\* the channels send_task_reminder attempts: enabled and configured
enabled_channels(st) ==
    (IF st.email_enabled /\ st.email_address THEN {"EMAIL"} ELSE {})
    \cup (IF st.telegram_enabled /\ st.telegram_chat_id THEN {"TELEGRAM"} ELSE {})
    \cup (IF st.discord_enabled /\ st.discord_webhook_url THEN {"DISCORD"} ELSE {})

\* the snooze test of send_task_reminder on the row it has read:
\* task.snoozed_until and task.snoozed_until > datetime.now(timezone.utc)
snooze_test(id) ==
    IF tasks[id].snoozed_until = None THEN "False"
    ELSE datetime_gt(column(tasks[id].snoozed_until), utcnow)

\* a bug skip_reason could have: the status of the task is not looked at
skip_reason_no_status(id) ==
    IF id \notin DOMAIN tasks THEN "task_not_found"
    ELSE IF snooze_test(id) = "TypeError" THEN "TypeError"
    ELSE IF snooze_test(id) = "True" THEN "task_snoozed"
    ELSE IF tasks[id].user_id \notin DOMAIN settings THEN "no_notification_settings"
    ELSE "-"

\* a bug skip_reason could have: the row is used without the test for a
\* missing one, and task.status raises on None
skip_reason_no_row_test(id) ==
    IF id \notin DOMAIN tasks THEN "TypeError"
    ELSE IF tasks[id].status \in Terminal THEN "task_completed"
    ELSE IF snooze_test(id) = "TypeError" THEN "TypeError"
    ELSE IF snooze_test(id) = "True" THEN "task_snoozed"
    ELSE IF tasks[id].user_id \notin DOMAIN settings THEN "no_notification_settings"
    ELSE "-"

\* the early exits of send_task_reminder, in the order the code takes them:
\* "-" when the handler goes on to send, "TypeError" when the snooze test
\* raises.  Users are never removed, so user_not_found does not occur.
skip_reason(id) ==
    IF id \notin DOMAIN tasks THEN "task_not_found"
    ELSE IF tasks[id].status \in Terminal THEN "task_completed"
    ELSE IF snooze_test(id) = "TypeError" THEN "TypeError"
    ELSE IF snooze_test(id) = "True" THEN "task_snoozed"
    ELSE IF tasks[id].user_id \notin DOMAIN settings THEN "no_notification_settings"
    ELSE "-"

ChannelOrder == << "EMAIL", "TELEGRAM", "DISCORD" >>

\* the rows _log_notification adds, channel by channel
log_rows(id, attempted, ok) ==
    LET row(c) == [task_id |-> id, channel |-> c,
                   status |-> IF c \in ok THEN "SENT" ELSE "FAILED"]
        chans == SelectSeq(ChannelOrder, LAMBDA c : c \in attempted)
    IN  [i \in DOMAIN chans |-> row(chans[i])]

Run(m, outcome, attempted, rows) ==
    [Response("send_task_reminder", 0, m.args[1], 0, "-", << >>, << >>)
        EXCEPT !.run = [outcome |-> outcome, kind |-> m.args[2],
                        attempted |-> attempted, rows |-> rows]]

\* a bug retry could have: the bound is tested one retry too late
retry_once_more(m) ==
    /\ logs' = logs
    /\ IF m.retries <= max_retries
       THEN /\ queue' = apply_async(queue \ {m}, revoked,
                                    [m EXCEPT !.retries = @ + 1, !.eta = now])
            /\ last' = Run(m, "retry", {}, {})
       ELSE /\ queue' = queue \ {m}
            /\ last' = Run(m, "failed", {}, {})

\* except Exception: db.rollback(); raise self.retry(exc=e).  The message is
\* published again under the same id, one retry further and 60 seconds later
\* (within the hour that is the unit of the clock); past max_retries the
\* exception is raised instead and the run has failed.
retry(m) ==
    /\ logs' = logs
    /\ IF m.retries < max_retries
       THEN /\ queue' = apply_async(queue \ {m}, revoked,
                                    [m EXCEPT !.retries = @ + 1, !.eta = now])
            /\ last' = Run(m, "retry", {}, {})
       ELSE /\ queue' = queue \ {m}
            /\ last' = Run(m, "failed", {}, {})

\* the worker reaches the ETA of a held message: it discards a revoked one
\* and runs send_task_reminder(task_id, reminder_type) for any other
send_task_reminder(m) ==
    /\ m \in queue
    /\ m.eta <= now
    /\ LET id == m.args[1] IN
       IF m.task_id \in revoked
       THEN /\ last' = Run(m, "revoked", {}, {})
            /\ queue' = queue \ {m}
            /\ logs' = logs
       ELSE IF skip_reason(id) = "TypeError"
       THEN retry(m)
       ELSE IF skip_reason(id) # "-"
       THEN /\ last' = Run(m, skip_reason(id), {}, {})
            /\ queue' = queue \ {m}
            /\ logs' = logs
       ELSE \E ok \in SUBSET enabled_channels(settings[tasks[id].user_id]) :
              LET attempted == enabled_channels(settings[tasks[id].user_id])
                  rows == log_rows(id, attempted, ok)
              IN  /\ logs' = logs \o rows
                  /\ queue' = queue \ {m}
                  /\ last' = Run(m, IF ok # {} THEN "sent" ELSE "no_channels",
                                 attempted, SeqRange(rows))
    /\ UNCHANGED <<now, tasks, nextId, subtasks, settings, revoked, inflight,
                   sending, scan>>

Deliver == \E m \in queue : send_task_reminder(m)

\* ---------------------------------------------------------- environment
Tick ==
    /\ now < MaxTime
    /\ now' = now + 1
    /\ UNCHANGED <<tasks, nextId, subtasks, settings, logs, queue, revoked,
                   last, inflight, sending, scan>>

Next ==
    \/ CreateTask
    \/ UpdateTask
    \/ ChangeStatus
    \/ CompleteTask
    \/ SnoozeTask
    \/ DeleteTask
    \/ AddSubtask
    \/ ToggleSubtask
    \/ GetSettings
    \/ UpdateSettings
    \/ Deliver
    \/ Tick

Spec == Init /\ [][Next]_vars

\* ------------------------------------------- the scheduler on its own
\* schedule_notifications(task, settings) called once, for a task with any due
\* date around now and any value of the two toggles
ScheduleDues == 0 .. (Hours24 + MaxTime + 1)

InitSchedule ==
    /\ inflight = [r \in Slots |-> Idle]
    /\ sending = NoSend
    /\ scan = NoScan
    /\ now \in Instants
    /\ \E due \in ScheduleDues : tasks = (1 :> NewTask(1, due))
    /\ \E st \in SettingsChoices : settings = (1 :> st)
    /\ nextId = 2
    /\ subtasks = (1 :> << >>)
    /\ logs = << >>
    /\ queue = {}
    /\ revoked = {}
    /\ last = Response("init", 0, 0, 0, "-", << >>, << >>)

schedule_notifications ==
    /\ last.op = "init"
    /\ LET subs == schedule_task_notifications(1, tasks[1].due_date, settings[1], now)
       IN  /\ queue' = publish_all(queue, revoked, Messages(subs))
           /\ last' = Response("schedule", 1, 1, 200, "-", SubmitCalls(subs),
                               scheduled_tasks(subs))
    /\ UNCHANGED <<now, tasks, nextId, subtasks, settings, logs, revoked,
                   inflight, sending, scan>>

NextSchedule == schedule_notifications

SpecSchedule == InitSchedule /\ [][NextSchedule]_vars

\* --------------------------------------- requests running side by side
\* The endpoints of one task, step by step; the due dates of the bodies carry
\* an offset.  Each request has its own session: it reads the committed row
\* once (get_task_by_id), its flush writes under the
\* row lock of the database, and the commit of get_db makes the write visible
\* and releases the lock.  An exception on the way rolls the session back.
Ops == {"delete", "update", "status"}

\* the task the requests address
TheTask == 1

LockFree == \A r \in Slots : ~inflight[r].lock

Fail(r, code) ==
    [inflight EXCEPT ![r].pc = "done", ![r].code = code, ![r].lock = FALSE]

Goto(r, pc) == [inflight EXCEPT ![r].pc = pc]

\* get_task_by_id and verify_task_ownership, at the head of every endpoint
ReadTask(r, op, upd_due, upd_status) ==
    /\ inflight[r].pc = "idle"
    /\ IF NotFound(1, TheTask)
       THEN inflight' = [inflight EXCEPT ![r].op = op, ![r].pc = "done",
                                         ![r].code = 404]
       ELSE /\ op = "update" => upd_due # tasks[TheTask].due_date
            /\ inflight' = [inflight EXCEPT
                   ![r].op = op,
                   ![r].task = tasks[TheTask],
                   ![r].upd_due = upd_due,
                   ![r].upd_status = upd_status,
                   ![r].pc = IF op = "delete" THEN "revoke" ELSE "flush"]
    /\ UNCHANGED <<now, tasks, nextId, subtasks, settings, logs, queue, revoked,
                   last, sending, scan>>

BeginRequest ==
    \E r \in Slots :
        \/ ReadTask(r, "delete", None, "-")
        \/ \E upd_due \in DueDates : ReadTask(r, "update", upd_due, "-")
        \/ \E upd_status \in {"IN_PROGRESS", "COMPLETED"} :
               ReadTask(r, "status", None, upd_status)

\* db.flush() in crud.update_task and crud.update_task_status: an UPDATE of
\* the changed columns.  It waits for the row lock; a row that is gone makes
\* the session raise (StaleDataError).
FlushUpdate(r) ==
    /\ inflight[r].pc = "flush"
    /\ LET q == inflight[r]
           dirty == update_task(q.task, q.upd_due, TRUE, q.upd_status) # q.task
           next == IF q.op = "update" THEN "revoke"
                   ELSE IF should_cancel_notifications(q.task.status, q.upd_status)
                        THEN "revoke" ELSE "commit"
       IN  IF ~dirty THEN inflight' = Goto(r, next)
           ELSE /\ LockFree
                /\ IF TheTask \in DOMAIN tasks
                   THEN inflight' = [inflight EXCEPT ![r].pc = next, ![r].lock = TRUE]
                   ELSE inflight' = Fail(r, 500)
    /\ UNCHANGED <<now, tasks, nextId, subtasks, settings, logs, queue, revoked,
                   last, sending, scan>>

\* revoke_notifications(task_id) in the three endpoints
RevokeStep(r, up) ==
    /\ inflight[r].pc = "revoke"
    /\ IF ~up
       THEN /\ inflight' = Fail(r, 500)
            /\ UNCHANGED revoked
       ELSE /\ revoked' = Revoked(revoked, TheTask)
            /\ inflight' = [inflight EXCEPT
                   ![r].calls = @ \o RevokeCalls(TheTask),
                   ![r].pc = IF inflight[r].op = "delete" THEN "delete"
                             ELSE IF inflight[r].op = "update" THEN "schedule"
                             ELSE "commit"]
    /\ UNCHANGED <<now, tasks, nextId, subtasks, settings, logs, queue, last,
                   sending, scan>>

\* the second half of reschedule_task_notifications, for the new due date
ScheduleStep(r, up) ==
    /\ inflight[r].pc = "schedule"
    /\ IF ~up
       THEN /\ inflight' = Fail(r, 500)
            /\ UNCHANGED queue
       ELSE LET msgs == schedule_task_notifications(TheTask, inflight[r].upd_due,
                                                    settings[1], now)
            IN  /\ queue' = publish_all(queue, revoked, Messages(msgs))
                /\ inflight' = [inflight EXCEPT ![r].calls = @ \o SubmitCalls(msgs),
                                                ![r].pc = "commit"]
    /\ UNCHANGED <<now, tasks, nextId, subtasks, settings, logs, revoked, last,
                   sending, scan>>

\* db.delete(task) and db.flush() in crud.delete_task: a DELETE that waits for
\* the row lock; a row that is gone already only draws a warning
FlushDelete(r) ==
    /\ inflight[r].pc = "delete"
    /\ LockFree
    /\ inflight' = [inflight EXCEPT ![r].pc = "commit", ![r].lock = TRUE]
    /\ UNCHANGED <<now, tasks, nextId, subtasks, settings, logs, queue, revoked,
                   last, sending, scan>>

\* session.commit() in get_db, after the endpoint has returned
Commit(r) ==
    /\ inflight[r].pc = "commit"
    /\ LET q == inflight[r] IN
       /\ inflight' = [inflight EXCEPT ![r].pc = "done", ![r].lock = FALSE,
                          ![r].code = IF q.op = "delete" THEN 204 ELSE 200]
       /\ IF TheTask \notin DOMAIN tasks \/ ~q.lock
          THEN UNCHANGED <<tasks, subtasks, logs>>
          ELSE IF q.op = "delete"
          THEN /\ tasks' = Without(tasks, TheTask)
               /\ subtasks' = Without(subtasks, TheTask)
               /\ logs' = SelectSeq(logs, LAMBDA row : row.task_id # TheTask)
          ELSE /\ tasks' = [tasks EXCEPT
                               ![TheTask] = update_task(@, q.upd_due, TRUE, q.upd_status)]
               /\ UNCHANGED <<subtasks, logs>>
    /\ UNCHANGED <<now, nextId, settings, queue, revoked, last, sending, scan>>

StepRequest ==
    \E r \in Slots :
        \/ FlushUpdate(r)
        \/ \E up \in BOOLEAN : RevokeStep(r, up)
        \/ \E up \in BOOLEAN : ScheduleStep(r, up)
        \/ FlushDelete(r)
        \/ Commit(r)

\* The worker runs send_task_reminder in steps of its own, side by side with
\* the requests.  It takes a held message off the queue when its ETA has come
\* and discards it there if its id is revoked; a revoke that arrives after
\* that does not stop the run.
AcceptMessage(m) ==
    /\ sending.pc = "idle"
    /\ m \in queue
    /\ m.eta <= now
    /\ queue' = queue \ {m}
    /\ IF m.task_id \in revoked
       THEN /\ last' = Run(m, "revoked", {}, {})
            /\ sending' = sending
       ELSE /\ last' = last
            /\ sending' = [NoSend EXCEPT !.pc = "run", !.m = m]
    /\ UNCHANGED <<now, tasks, nextId, subtasks, settings, logs, revoked,
                   inflight, scan>>

\* the body of send_task_reminder down to db.commit(): it reads the committed
\* rows, leaves by an early exit or sends on every enabled channel, adding a
\* row to the session after each send
RunHandler ==
    /\ sending.pc = "run"
    /\ LET m == sending.m
           id == m.args[1]
       IN  IF skip_reason(id) = "TypeError"
           THEN /\ retry(m)
                /\ sending' = NoSend
           ELSE IF skip_reason(id) # "-"
           THEN /\ last' = Run(m, skip_reason(id), {}, {})
                /\ sending' = NoSend
                /\ UNCHANGED <<queue, logs>>
           ELSE /\ \E ok \in SUBSET enabled_channels(settings[tasks[id].user_id]) :
                     sending' = [sending EXCEPT
                         !.pc = "commit",
                         !.attempted = enabled_channels(settings[tasks[id].user_id]),
                         !.ok = ok]
                /\ UNCHANGED <<queue, logs, last>>
    /\ UNCHANGED <<now, tasks, nextId, subtasks, settings, revoked, inflight,
                   scan>>

\* db.commit() at the end of send_task_reminder: the INSERTs into
\* notification_logs.  The foreign key on task_id makes an INSERT wait for a
\* session that is writing the task row, and fail when the row is gone
\* (IntegrityError); the handler then rolls back and asks for a retry.
CommitHandler ==
    /\ sending.pc = "commit"
    /\ LET m == sending.m
           id == m.args[1]
           rows == log_rows(id, sending.attempted, sending.ok)
       IN  /\ rows # << >> => LockFree
           /\ IF rows # << >> /\ id \notin DOMAIN tasks
              THEN retry(m)
              ELSE /\ logs' = logs \o rows
                   /\ queue' = queue
                   /\ last' = Run(m, IF sending.ok # {} THEN "sent" ELSE "no_channels",
                                  sending.attempted, SeqRange(rows))
    /\ sending' = NoSend
    /\ UNCHANGED <<now, tasks, nextId, subtasks, settings, revoked, inflight,
                   scan>>

Worker ==
    \/ \E m \in queue : AcceptMessage(m)
    \/ RunHandler
    \/ CommitHandler

\* a task created through POST /tasks/ by a user with settings, its reminders
\* scheduled
InitConc ==
    /\ now = 0
    /\ \E st \in SettingsChoices :
         /\ settings = (1 :> st)
         /\ queue = publish_all({}, {},
                       Messages(schedule_task_notifications(TheTask, Hours24 + 1,
                                                            st, 0)))
    /\ tasks = (TheTask :> NewTask(1, Hours24 + 1))
    /\ nextId = 2
    /\ subtasks = (TheTask :> << >>)
    /\ logs = << >>
    /\ revoked = {}
    /\ last = Response("create", 1, TheTask, 201, "-", << >>, << >>)
    /\ inflight = [r \in Slots |-> Idle]
    /\ sending = NoSend
    /\ scan = NoScan

NextConc ==
    \/ BeginRequest
    \/ StepRequest
    \/ Worker
    \/ Tick

SpecConc == InitConc /\ [][NextConc]_vars

\* ------------------------------------------- a create, step by step
\* POST /tasks/ in the steps of its session, side by side with the worker.
\* crud.create_task flushes the INSERT, which takes the id and leaves the row
\* visible to this session alone; schedule_notifications publishes the
\* messages; the commit of get_db, after the endpoint has returned, makes the
\* row visible to the worker.
FlushAndSchedule(r, u, due, up) ==
    /\ inflight[r].pc = "idle"
    /\ nextId <= MaxTasks
    /\ nextId' = nextId + 1
    /\ LET id == nextId
           msgs == IF u \in DOMAIN settings
                   THEN schedule_task_notifications(id, due, settings[u], now)
                   ELSE << >>
       IN  /\ Reach(msgs # << >>, up)
           /\ IF msgs # << >> /\ ~up
              THEN /\ inflight' = [inflight EXCEPT ![r].op = "create",
                                       ![r].task_id = id, ![r].pc = "done",
                                       ![r].code = 500]
                   /\ queue' = queue
              ELSE /\ inflight' = [inflight EXCEPT ![r].op = "create",
                                       ![r].task_id = id, ![r].pc = "commit",
                                       ![r].task = NewTask(u, due),
                                       ![r].calls = SubmitCalls(msgs)]
                   /\ queue' = publish_all(queue, revoked, Messages(msgs))
    /\ UNCHANGED <<now, tasks, subtasks, settings, logs, revoked, last, sending,
                   scan>>

\* session.commit() in get_db for the create
CommitCreate(r) ==
    /\ inflight[r].op = "create"
    /\ inflight[r].pc = "commit"
    /\ tasks' = (inflight[r].task_id :> inflight[r].task) @@ tasks
    /\ subtasks' = (inflight[r].task_id :> << >>) @@ subtasks
    /\ inflight' = [inflight EXCEPT ![r].pc = "done", ![r].code = 201]
    /\ UNCHANGED <<now, nextId, settings, logs, queue, revoked, last, sending,
                   scan>>

CreateRequest ==
    \E r \in Slots :
        \/ \E u \in Users, due \in DueDates, up \in BOOLEAN :
               FlushAndSchedule(r, u, due, up)
        \/ CommitCreate(r)

InitCreate ==
    /\ inflight = [r \in Slots |-> Idle]
    /\ sending = NoSend
    /\ scan = NoScan
    /\ now = 0
    /\ tasks = << >>
    /\ nextId = 1
    /\ subtasks = << >>
    /\ \E st \in SettingsChoices : settings = [u \in Users |-> st]
    /\ logs = << >>
    /\ queue = {}
    /\ revoked = {}
    /\ last = Response("init", 0, 0, 0, "-", << >>, << >>)

NextCreate ==
    \/ CreateRequest
    \/ Deliver
    \/ Tick

SpecCreate == InitCreate /\ [][NextCreate]_vars

\* -------------------------------------------------------- urgency scores
\* Scores are held in hundredths, the two decimals calculate_urgency_score
\* rounds to.
Priority == {"LOW", "MEDIUM", "HIGH", "URGENT"}

\* a bug PRIORITY_WEIGHTS could have: URGENT is missing from the table and
\* gets the default of the lookup
PRIORITY_WEIGHTS_urgent_missing(priority) ==
    CASE priority = "LOW" -> 10
      [] priority = "MEDIUM" -> 15
      [] priority = "HIGH" -> 20
      [] priority = "URGENT" -> 15

\* PRIORITY_WEIGHTS, in tenths
PRIORITY_WEIGHTS(priority) ==
    CASE priority = "LOW" -> 10
      [] priority = "MEDIUM" -> 15
      [] priority = "HIGH" -> 20
      [] priority = "URGENT" -> 25

Abs(x) == IF x < 0 THEN -x ELSE x

Min(a, b) == IF a < b THEN a ELSE b

Max(a, b) == IF a > b THEN a ELSE b

\* round(n / d, 0) for a quotient that is no tie
round(n, d) == (2 * n + d) \div (2 * d)

\* The time factor is held as a multiple of 1 / TimeUnit, the common
\* denominator of the divisions by 24, by 168 and by 24 * 30.
TimeUnit == 5040

\* a bug overdue_factor could have: the cap is left out
overdue_factor_uncapped(h) == (100 + (-h) * 2) * TimeUnit

\* hours_until_due < 0: min(100 + hours_overdue * 2, 200)
overdue_factor(h) == Min(100 + (-h) * 2, 200) * TimeUnit

\* hours_until_due <= 1: 80 + 20 * (1 - hours_until_due)
hour_factor(h) == (80 + 20 * (1 - h)) * TimeUnit

\* a bug day_factor could have: the fraction of the day is not taken from 1
day_factor_rising(h) == 40 * TimeUnit + 40 * (h * (TimeUnit \div 24))

\* hours_until_due <= 24: 40 + 40 * (1 - hours_until_due / 24)
day_factor(h) == 40 * TimeUnit + 40 * (TimeUnit - h * (TimeUnit \div 24))

\* hours_until_due <= 168: 10 + 30 * (1 - hours_until_due / 168)
week_factor(h) == 10 * TimeUnit + 30 * (TimeUnit - h * (TimeUnit \div 168))

\* later: max(0, 10 - (days_until_due / 30) * 10), days_until_due being
\* hours_until_due / 24
later_factor(h) == Max(0, 10 * TimeUnit - h * (TimeUnit \div (24 * 30)) * 10)

\* the if / elif chain that picks the formula of the time factor
time_factor(h) ==
    IF h < 0 THEN overdue_factor(h)
    ELSE IF h <= 1 THEN hour_factor(h)
    ELSE IF h <= 24 THEN day_factor(h)
    ELSE IF h <= 168 THEN week_factor(h)
    ELSE later_factor(h)

\* calculate_urgency_score(due_date, priority, current_time): the time factor
\* of the bracket the hours until due fall in, times the weight, rounded to
\* two decimals
calculate_urgency_score(due_date, priority, current_time) ==
    LET hours_until_due == due_date - current_time
        weight == PRIORITY_WEIGHTS(priority) * 10
    IN  round(time_factor(hours_until_due) * weight, TimeUnit)

\* a bug significant could have: a change of one hundredth counts
significant_from_epsilon(stored, new_score) == Abs(stored - new_score) >= 1

\* abs(task.urgency_score - new_score) > 0.01.  The two scores are doubles
\* rounded to two decimals; for the due dates and priorities of ScanTasks
\* the test on the doubles and the test on the hundredths give the same
\* answer, and no score is a rounding tie.
significant(stored, new_score) == Abs(stored - new_score) > 1

\* Task(...) as crud.create_task builds it at instant created, with the
\* columns the urgency jobs read
ScoredTask(u, due, priority, created) ==
    [user_id |-> u, status |-> "PENDING", due_date |-> due,
     due_date_tzinfo |-> TRUE, snoozed_until |-> None, priority |-> priority,
     urgency_score |-> calculate_urgency_score(due, priority, created)]

\* the result a job of the worker returns, or the exception it ends with
JobResult(op, result) == Response(op, 0, 0, 0, "-", << >>, result)

\* Task.status.not_in([COMPLETED, CANCELLED]) on the committed table
ActiveRows ==
    [id \in {i \in DOMAIN tasks : tasks[i].status \notin Terminal} |-> tasks[id]]

\* update_all_urgency_scores, the query and the snapshot of now
SelectActive ==
    /\ scan.job = "-"
    /\ scan' = [job |-> "all", rows |-> ActiveRows, current_time |-> now]
    /\ UNCHANGED <<now, tasks, nextId, subtasks, settings, logs, queue, revoked,
                   last, inflight, sending>>

\* update_single_task_score(task_id), down to the new score
ReadSingle(id) ==
    /\ scan.job = "-"
    /\ IF id \notin DOMAIN tasks
       THEN /\ last' = JobResult("update_single_task_score",
                                 [status |-> "error", reason |-> "task_not_found"])
            /\ scan' = scan
       ELSE IF tasks[id].status \in Terminal
       THEN /\ last' = JobResult("update_single_task_score",
                                 [status |-> "skipped", reason |-> "task_completed"])
            /\ scan' = scan
       ELSE /\ last' = last
            /\ scan' = [job |-> "single", rows |-> (id :> tasks[id]),
                        current_time |-> now]
    /\ UNCHANGED <<now, tasks, nextId, subtasks, settings, logs, queue, revoked,
                   inflight, sending>>

\* the score the job under way computes for a row it has loaded
new_score(id) ==
    calculate_urgency_score(scan.rows[id].due_date, scan.rows[id].priority,
                            scan.current_time)

\* the rows the job assigns urgency_score on
assigned ==
    { id \in DOMAIN scan.rows :
        scan.job = "single"
        \/ significant(scan.rows[id].urgency_score, new_score(id)) }

\* the rows the session has to write: an attribute assigned the value it
\* was loaded with is not dirty
dirty == { id \in assigned : new_score(id) # scan.rows[id].urgency_score }

\* db.commit() of either job: one UPDATE tasks SET urgency_score per dirty
\* row.  An UPDATE that matches no row makes the session raise
\* (StaleDataError); get_sync_session rolls back and the job fails.
CommitScores ==
    /\ scan.job # "-"
    /\ IF dirty \subseteq DOMAIN tasks
       THEN /\ tasks' = [id \in DOMAIN tasks |->
                           IF id \in dirty
                           THEN [tasks[id] EXCEPT !.urgency_score = new_score(id)]
                           ELSE tasks[id]]
            /\ last' = IF scan.job = "all"
                       THEN JobResult("update_all_urgency_scores",
                                      [status |-> "completed",
                                       total_tasks |-> Cardinality(DOMAIN scan.rows),
                                       updated |-> Cardinality(assigned)])
                       ELSE JobResult("update_single_task_score",
                                      [status |-> "updated"])
       ELSE /\ tasks' = tasks
            /\ last' = JobResult(IF scan.job = "all"
                                 THEN "update_all_urgency_scores"
                                 ELSE "update_single_task_score",
                                 [status |-> "StaleDataError"])
    /\ scan' = NoScan
    /\ UNCHANGED <<now, nextId, subtasks, settings, logs, queue, revoked,
                   inflight, sending>>

\* the task no request addresses
Bystander == MaxTasks + 1

ScanIds == 1 .. Bystander

\* the bodies the tasks of the jobs were created with: due in an hour, and
\* due beyond the week, where the score moves by one hundredth in an hour
\* (199) or by two (200)
ScanTasks ==
    { [due_date |-> 1, priority |-> "MEDIUM"],
      [due_date |-> 199, priority |-> "LOW"],
      [due_date |-> 200, priority |-> "LOW"] }

\* tasks created at instant 0 through POST /tasks/, their reminders scheduled
InitRescan ==
    /\ inflight = [r \in Slots |-> Idle]
    /\ sending = NoSend
    /\ scan = NoScan
    /\ now = 0
    /\ \E body \in [ScanIds -> ScanTasks] :
         /\ tasks = [id \in ScanIds |->
                       ScoredTask(1, body[id].due_date, body[id].priority, 0)]
         /\ queue = UNION { SeqRange(Messages(schedule_task_notifications(
                                id, body[id].due_date, RegisteredSettings, 0)))
                            : id \in ScanIds }
    /\ nextId = Bystander + 1
    /\ subtasks = [id \in ScanIds |-> << >>]
    /\ settings = [u \in Users |-> RegisteredSettings]
    /\ logs = << >>
    /\ revoked = {}
    /\ last = Response("init", 0, 0, 0, "-", << >>, << >>)

RunSingle == \E id \in ScanIds : ReadSingle(id)

NextRescan ==
    \/ SelectActive
    \/ RunSingle
    \/ CommitScores
    \/ CompleteTask
    \/ DeleteTask
    \/ Tick

SpecRescan == InitRescan /\ [][NextRescan]_vars

\* ---------------------------------------------------- the scorer alone
\* the hours until due a task is created with: from beyond the cap of the
\* overdue range up through the first day, and around the ends of the week
\* and of the thirty days.  No score of these is a rounding tie.
ScoreHours == (-52 .. 34) \cup (162 .. 170) \cup (715 .. 722)

LongestOverdue == CHOOSE h \in ScoreHours : \A g \in ScoreHours : h <= g

InitScore ==
    /\ inflight = [r \in Slots |-> Idle]
    /\ sending = NoSend
    /\ scan = NoScan
    /\ \E t \in Instants : now = t - LongestOverdue
    /\ tasks = << >>
    /\ nextId = 1
    /\ subtasks = << >>
    /\ settings = [u \in Users |-> RegisteredSettings]
    /\ logs = << >>
    /\ queue = {}
    /\ revoked = {}
    /\ last = Response("init", 0, 0, 0, "-", << >>, << >>)

\* crud.create_task in structured mode: the row it adds, with the score it
\* computes for the instant of the call
create_task(u, due_date, priority) ==
    /\ nextId <= MaxTasks
    /\ nextId' = nextId + 1
    /\ tasks' = (nextId :> ScoredTask(u, due_date, priority, now)) @@ tasks
    /\ subtasks' = (nextId :> << >>) @@ subtasks
    /\ last' = Response("create_task", u, nextId, 0, "-", << >>, << >>)
    /\ UNCHANGED <<now, settings, logs, queue, revoked, inflight, sending, scan>>

NextScore ==
    \E u \in Users, h \in ScoreHours, priority \in Priority :
        create_task(u, now + h, priority)

SpecScore == InitScore /\ [][NextScore]_vars

\* ================================================================ claims
Keys(id) == SeqRange(revoke_task_notifications(id))

\* the request recorded in r issued a cancel for each of the three keys of id
IssuedRevoke(r, id) ==
    \A k \in Keys(id) :
        \E i \in DOMAIN r.calls : r.calls[i].fn = "revoke" /\ r.calls[i].task_id = k

\* the request recorded in r submitted a work item for task id
IssuedSubmit(r, id) ==
    \E i \in DOMAIN r.calls :
        r.calls[i].fn = "apply_async" /\ r.calls[i].task_id \in Keys(id)

\* C1: whenever an operation moves a task from a non-terminal status to
\* COMPLETED or CANCELLED, it issues a cancel for the three keys of the task
\* and no work item of the task stays pending.
C1_TerminalRevokes ==
    [][\A id \in TaskIds :
          (/\ id \in DOMAIN tasks
           /\ id \in DOMAIN tasks'
           /\ tasks[id].status \notin Terminal
           /\ tasks'[id].status \in Terminal)
          => (IssuedRevoke(last', id) /\ Pending(id)' = {})]_vars

\* a worker step that runs the handler on message m (a held message leaves the
\* queue only when the worker reaches it; a revoked one is discarded unrun)
Handled(m) == m \in queue /\ m \notin queue' /\ m.task_id \notin revoked

\* C2: an execution of the delivery handler that reads a COMPLETED or
\* CANCELLED task sends on no channel, writes no NotificationLog row and
\* returns skipped / task_completed.
C2_TerminalSkipsSend ==
    [][\A m \in queue :
          (/\ Handled(m)
           /\ m.args[1] \in DOMAIN tasks
           /\ tasks[m.args[1]].status \in Terminal)
          => (/\ logs' = logs
              /\ last'.run.outcome = "task_completed"
              /\ last'.run.attempted = {}
              /\ last'.run.rows = {})]_vars

C2_Witness ==
    /\ last.op = "send_task_reminder"
    /\ last.run.outcome = "task_completed"
    /\ last.run.kind = "AT_DUE"

\* C3: after an update has changed the due date to a future instant and
\* rescheduled, the pending work items of the task are exactly the items
\* schedule submits for the new due date, with their new trigger instants.
C3_RescheduleLive ==
    \A id \in DOMAIN tasks :
        (/\ last.op = "update"
         /\ last.code = 200
         /\ last.task_id = id
         /\ IssuedRevoke(last, id)
         /\ tasks[id].due_date > now)
        => Pending(id) =
             SeqRange(Messages(schedule_task_notifications(
                 id, tasks[id].due_date, settings[tasks[id].user_id], now)))

\* the three reminder kinds: argument, key suffix, offset before the due date
Kinds ==
    { [rtype |-> "24_HOUR", suffix |-> "24hr", before |-> Hours24],
      [rtype |-> "1_HOUR", suffix |-> "1hr", before |-> Hours1],
      [rtype |-> "AT_DUE", suffix |-> "at_due", before |-> 0] }

ToggleOn(st, k) ==
    IF k.rtype = "24_HOUR" THEN st.notify_24hr_before
    ELSE IF k.rtype = "1_HOUR" THEN st.notify_1hr_before
    ELSE TRUE

\* the kinds whose trigger instant is strictly later than n and that are on
Due(due_date, st, n) ==
    { k \in Kinds : due_date - k.before > n /\ ToggleOn(st, k) }

\* C4: schedule submits a work item for a kind exactly when its trigger
\* instant is strictly later than now and the kind is AT_DUE or its toggle is
\* on, and returns exactly the submitted (kind, key) pairs: nothing for a due
\* date that is not in the future, the 1-hour and AT_DUE items for a task due
\* in 2 hours with both toggles on.
C4_ScheduleExactlyFuture ==
    last.op = "schedule" =>
        LET due == tasks[1].due_date
            st == settings[1]
            want == Due(due, st, now)
        IN  /\ queue = { [args |-> <<1, k.rtype>>, eta |-> due - k.before,
                          task_id |-> <<"notify", k.suffix, 1>>, retries |-> 0]
                        : k \in want }
            /\ SeqRange(last.result) =
                 { <<k.rtype, <<"notify", k.suffix, 1>> >> : k \in want }
            /\ Len(last.result) = Cardinality(want)
            /\ Len(last.calls) = Cardinality(want)
            /\ (due <= now => last.result = << >>)
            /\ (due = now + 2 /\ st.notify_24hr_before /\ st.notify_1hr_before
                  => last.result = << <<"1_HOUR", <<"notify", "1hr", 1>> >>,
                                      <<"AT_DUE", <<"notify", "at_due", 1>> >> >>)

C4_Witness ==
    /\ last.op = "schedule"
    /\ tasks[1].due_date = now + 2
    /\ settings[1].notify_24hr_before
    /\ settings[1].notify_1hr_before
    /\ Len(last.result) = 2

\* C5: a revoke for a task none of whose keys has a pending item changes
\* nothing in the runtime.
C5_RevokeOfNothingIsNoOp ==
    [][\A id \in TaskIds :
          (/\ last' # last
           /\ last'.task_id = id
           /\ last'.calls = RevokeCalls(id)
           /\ Pending(id) = {})
          => UNCHANGED <<queue, revoked>>]_vars

\* C6: once a task is deleted no work item of its id is pending, however the
\* delete was interleaved with updates that reschedule and with status
\* changes; and a delete that fails has issued no call to the runtime, so the
\* work items of the task are as they were.
C6_DeleteLeavesNothingPending ==
    /\ \A id \in TaskIds :
         (id < nextId /\ id \notin DOMAIN tasks) => Pending(id) = {}
    /\ \A r \in Slots :
         (inflight[r].op = "delete" /\ inflight[r].pc = "done"
            /\ inflight[r].code # 204)
         => inflight[r].calls = << >>
    /\ (last.op = "delete" /\ last.code # 204) => last.calls = << >>

\* a delete went through while an update that had rescheduled was under way,
\* and the worker still holds a message of the task
C6_Witness ==
    /\ TheTask \notin DOMAIN tasks
    /\ \E d, u \in Slots :
         /\ inflight[d].op = "delete" /\ inflight[d].code = 204
         /\ inflight[u].op = "update" /\ IssuedSubmit(inflight[u], TheTask)
    /\ \E m \in queue : m.args[1] = TheTask

\* C7: a create never fails on account of the runtime: the task is persisted
\* and the create reports success.
C7_CreateSurvivesBrokerOutage ==
    last.op = "create" => (last.code = 201 /\ last.task_id \in DOMAIN tasks)

\* C8: once a task is COMPLETED or CANCELLED no operation submits a work item
\* for it, and it has no pending work item.
C8_NoSubmitOnceTerminal ==
    [][\A id \in TaskIds :
          (id \in DOMAIN tasks /\ tasks[id].status \in Terminal)
          => (/\ ~(last' # last /\ IssuedSubmit(last', id))
              /\ (id \in DOMAIN tasks' => Pending(id)' = {}))]_vars

C10_SnoozeConsumesItem ==
    [][/\ \A m \in queue :
            (/\ Handled(m)
             /\ m.args[1] \in DOMAIN tasks
             /\ tasks[m.args[1]].status \notin Terminal
             /\ tasks[m.args[1]].snoozed_until # None
             /\ now < tasks[m.args[1]].snoozed_until)
            => (/\ last'.run.outcome = "task_snoozed"
                /\ last'.run.attempted = {}
                /\ logs' = logs
                /\ queue' = queue \ {m}
                /\ revoked' = revoked)
       /\ \A id \in DOMAIN tasks :
            (id \in DOMAIN tasks' /\ tasks'[id].snoozed_until # tasks[id].snoozed_until)
            => UNCHANGED <<queue, revoked>>]_vars

\* the handler run on m raises: the row it reads is open and snoozed, and the
\* snooze test compares the stored instant with datetime.now(timezone.utc)
Raises(m) ==
    /\ m.args[1] \in DOMAIN tasks
    /\ tasks[m.args[1]].status \notin Terminal
    /\ tasks[m.args[1]].snoozed_until # None

\* C12: a handler run that hits an exception asks for a retry instead of
\* returning: the item is submitted again under its id with one retry more,
\* as long as it has been retried fewer than 3 times, and is given up (the
\* run fails) after that.  No held item has more than 3 retries behind it,
\* and every run either consumes its item or resubmits it with a larger
\* retry count, so no item is executed for ever.
C12_RetryBounded ==
    [][/\ \A m \in queue : m.retries <= max_retries
       /\ \A m \in queue :
            Handled(m) =>
              /\ \A m2 \in queue' \ queue :
                    /\ m2.task_id = m.task_id
                    /\ m2.retries = m.retries + 1
              /\ Raises(m) =>
                    IF m.retries < max_retries
                    THEN /\ last'.run.outcome = "retry"
                         /\ queue' = (queue \ {m})
                              \cup {[m EXCEPT !.retries = @ + 1, !.eta = now]}
                    ELSE /\ last'.run.outcome = "failed"
                         /\ queue' = queue \ {m}]_vars

\* the third retry of an item has been submitted
C12_Witness ==
    /\ last.op = "send_task_reminder"
    /\ last.run.outcome = "retry"
    /\ \E m \in queue : m.retries = max_retries /\ m.args[1] = last.task_id

\* C13: when a work item has used up its retries, NotificationLog holds a
\* FAILED row for its task.
C13_ExhaustedRetriesLogged ==
    (last.op = "send_task_reminder" /\ last.run.outcome = "failed")
    => \E i \in DOMAIN logs :
           logs[i].task_id = last.task_id /\ logs[i].status = "FAILED"

\* C14: a handler run in which the send on a channel fails (a timeout is one
\* of the failures the send helpers report) has the work item submitted
\* again, as long as it has been retried fewer than 3 times.
C14_SendFailureRetries ==
    [][\A m \in queue :
          (/\ Handled(m)
           /\ m.retries < max_retries
           /\ \E row \in last'.run.rows : row.status = "FAILED")
          => \E m2 \in queue' :
                 m2.task_id = m.task_id /\ m2.retries = m.retries + 1]_vars

\* a handler run that got as far as the channels and returned
Delivered(r) ==
    r.op = "send_task_reminder" /\ r.run.outcome \in {"sent", "no_channels"}

\* C16: the result of a handler run that reaches the channels is "sent"
\* exactly when a send succeeded, and "no_channels" exactly when no send was
\* attempted.
C16_ResultTellsSends ==
    Delivered(last) =>
        /\ last.run.outcome = "sent"
              <=> (\E row \in last.run.rows : row.status = "SENT")
        /\ last.run.outcome = "no_channels" <=> last.run.attempted = {}

\* C20: in every reschedule the cancel calls for the three keys of the task
\* are the first three calls made on the runtime, and every submit call comes
\* after them.
C20_CancelBeforeSubmit ==
    (last.op = "update" /\ last.calls # << >>) =>
        /\ Len(last.calls) >= 3
        /\ \A k \in Keys(last.task_id) :
              \E i \in 1 .. 3 :
                  last.calls[i].fn = "revoke" /\ last.calls[i].task_id = k
        /\ \A i \in DOMAIN last.calls :
              last.calls[i].fn = "apply_async" => i > 3

\* an update that moved the due date, revoked and submitted
C20_Witness ==
    /\ last.op = "update"
    /\ last.code = 200
    /\ IssuedRevoke(last, last.task_id)
    /\ IssuedSubmit(last, last.task_id)
    /\ Len(last.calls) > 3

\* C11: the NotificationLog rows a handler run leaves in the table are the
\* rows of the sends it performed, one for each channel it sent on, SENT or
\* FAILED as the send went, whether the run returns or raises and is
\* retried.
C11_LogRowsMatchSends ==
    [][(sending.pc = "commit" /\ sending'.pc = "idle")
          => logs' = logs \o log_rows(sending.m.args[1], sending.attempted,
                                      sending.ok)]_vars

C17_RescanWritesChangedScores ==
    [][(/\ scan.job = "all"
        /\ scan'.job = "-"
        /\ scan.rows = ActiveRows)
       => LET score(id) == calculate_urgency_score(tasks[id].due_date,
                               tasks[id].priority, scan.current_time)
              moved(t, id) ==
                  /\ t[id].status \notin Terminal
                  /\ \/ t[id].urgency_score - score(id) > 1
                     \/ score(id) - t[id].urgency_score > 1
          IN  /\ DOMAIN tasks' = DOMAIN tasks
              /\ \A id \in DOMAIN tasks :
                    tasks'[id] = IF moved(tasks, id)
                                 THEN [tasks[id] EXCEPT !.urgency_score = score(id)]
                                 ELSE tasks[id]
              /\ \A id \in DOMAIN tasks' : ~moved(tasks', id)
              /\ last'.result.status = "completed"
              /\ last'.result.updated =
                    Cardinality({id \in DOMAIN tasks : moved(tasks, id)})]_vars

\* a pass at a later instant than the tasks were scored at: it wrote a score,
\* and left the score of an open task that had moved by one hundredth
C17_Witness ==
    /\ last.op = "update_all_urgency_scores"
    /\ last.result.status = "completed"
    /\ last.result.updated >= 1
    /\ scan = NoScan
    /\ \E id \in DOMAIN tasks :
         /\ tasks[id].status \notin Terminal
         /\ Abs(tasks[id].urgency_score
                - calculate_urgency_score(tasks[id].due_date, tasks[id].priority,
                                          now)) = 1

\* C18: the urgency_score of a task that is COMPLETED or CANCELLED is not
\* written again, by the rescan pass or by the single-task update, however
\* the job is interleaved with the request that completes the task.
C18_TerminalScoreFrozen ==
    [][\A id \in DOMAIN tasks :
          (id \in DOMAIN tasks' /\ tasks[id].status \in Terminal)
          => tasks'[id].urgency_score = tasks[id].urgency_score]_vars

\* C19: a rescan pass during which tasks are completed or deleted does not
\* fail; when it ends, a deleted task is still deleted, every task has the
\* status the requests gave it, and every open task of the pass whose score
\* had moved has its new score.
C19_RescanSafeUnderMutation ==
    [][(scan.job = "all" /\ scan'.job = "-")
       => /\ last'.result.status = "completed"
          /\ DOMAIN tasks' = DOMAIN tasks
          /\ \A id \in DOMAIN tasks :
                /\ tasks'[id].status = tasks[id].status
                /\ (/\ id \in DOMAIN scan.rows
                    /\ tasks[id].status \notin Terminal
                    /\ significant(scan.rows[id].urgency_score, new_score(id)))
                   => tasks'[id].urgency_score = new_score(id)]_vars

\* the priorities by increasing weight
PriorityOrder == << "LOW", "MEDIUM", "HIGH", "URGENT" >>

\* the hours until due from which the time factor is 0
FloorHours == 24 * 30

\* the hours overdue from which the time factor is at its cap
CapHours == (200 - 100) \div 2

\* C21 as stated: for every due date, every priority and every now the
\* urgency score lies in [0, 300].
C21_ScoreWithin300 ==
    \A id \in DOMAIN tasks :
        tasks[id].urgency_score >= 0 /\ tasks[id].urgency_score <= 300 * 100

\* C21, amended: for every due date, every priority and every now the
\* urgency score lies in [0, 500], the cap of the time factor times the
\* largest weight; it is never negative.
C21_ScoreWithin500 ==
    \A id \in DOMAIN tasks :
        tasks[id].urgency_score >= 0 /\ tasks[id].urgency_score <= 500 * 100

\* an URGENT task created overdue beyond the cap: its score is the largest
C21_Witness ==
    /\ \E id \in DOMAIN tasks :
          /\ tasks[id].priority = "URGENT"
          /\ now - tasks[id].due_date > CapHours
          /\ tasks[id].urgency_score = 500 * 100
    /\ last.op = "create_task"

\* the scores of the four priorities for the due date of task id at now
OrderedStrictly(id) ==
    \A i, j \in DOMAIN PriorityOrder :
        i < j => calculate_urgency_score(tasks[id].due_date, PriorityOrder[i], now)
                   < calculate_urgency_score(tasks[id].due_date, PriorityOrder[j], now)

Ordered(id) ==
    \A i, j \in DOMAIN PriorityOrder :
        i < j => calculate_urgency_score(tasks[id].due_date, PriorityOrder[i], now)
                   <= calculate_urgency_score(tasks[id].due_date, PriorityOrder[j], now)

Stored(id) ==
    tasks[id].urgency_score =
        calculate_urgency_score(tasks[id].due_date, tasks[id].priority, now)

\* C22 as stated: for every fixed due date and now, score(URGENT) >
\* score(HIGH) > score(MEDIUM) > score(LOW), each inequality strict, for due
\* dates in the near future, in the far future and in the past alike.
C22_PriorityOrderStrict ==
    \A id \in DOMAIN tasks : Stored(id) /\ OrderedStrictly(id)

\* C22, amended: for every fixed due date and now, score(URGENT) >=
\* score(HIGH) >= score(MEDIUM) >= score(LOW); each inequality is strict for
\* a due date in the past and for one up to 718 hours after now, and from
\* 720 hours (thirty days) after now on all four scores are 0.
C22_PriorityOrder ==
    \A id \in DOMAIN tasks :
        /\ Stored(id)
        /\ Ordered(id)
        /\ tasks[id].due_date - now <= FloorHours - 2 => OrderedStrictly(id)
        /\ tasks[id].due_date - now >= FloorHours => tasks[id].urgency_score = 0

\* a task scored two hours before the thirty days, where HIGH and URGENT are
\* one hundredth apart
C22_Witness ==
    \E id \in DOMAIN tasks :
        /\ tasks[id].due_date - now = FloorHours - 2
        /\ tasks[id].priority = "HIGH"
        /\ tasks[id].urgency_score + 1
              = calculate_urgency_score(tasks[id].due_date, "URGENT", now)

\* the score task id would have with h hours until due
ScoreAt(id, h) == calculate_urgency_score(now + h, tasks[id].priority, now)

\* C23 as stated: for a fixed priority the urgency score strictly increases
\* as the gap due_date - now decreases, over the whole range of gaps: far
\* future, through zero, and into overdue.
C23_StrictlyMonotone ==
    \A id \in DOMAIN tasks :
        \A h \in ScoreHours :
            h < tasks[id].due_date - now => ScoreAt(id, h) > tasks[id].urgency_score

\* C23, amended: for a fixed priority the urgency score never decreases as
\* the gap due_date - now decreases, and it strictly increases when the gap
\* decreases by an hour or more between 720 hours ahead and 50 hours
\* overdue; beyond 720 hours ahead it is 0, and beyond 50 hours overdue it
\* stays at 200 times the weight.
C23_Monotone ==
    \A id \in DOMAIN tasks :
        LET gap == tasks[id].due_date - now IN
        /\ Stored(id)
        /\ \A h \in ScoreHours :
              h < gap =>
                /\ ScoreAt(id, h) >= tasks[id].urgency_score
                /\ (gap <= FloorHours /\ h >= -CapHours)
                      => ScoreAt(id, h) > tasks[id].urgency_score
                /\ gap <= -CapHours => ScoreAt(id, h) = tasks[id].urgency_score
        /\ gap >= FloorHours => tasks[id].urgency_score = 0

\* a LOW task scored an hour before the thirty days: one hundredth, and 0
\* an hour further out
C23_Witness ==
    \E id \in DOMAIN tasks :
        /\ tasks[id].priority = "LOW"
        /\ tasks[id].due_date - now = FloorHours - 1
        /\ tasks[id].urgency_score = 1
        /\ ScoreAt(id, FloorHours) = 0

\* C24: the time factor is continuous at the breakpoints of 1, 24 and 168
\* hours: for a task scored at a breakpoint, the formula of the range the
\* breakpoint closes and the formula of the range that follows it give the
\* same value there.
C24_ContinuousAtBreakpoints ==
    \A id \in DOMAIN tasks :
        LET h == tasks[id].due_date - now IN
        /\ h = 1 => hour_factor(h) = day_factor(h)
        /\ h = 24 => day_factor(h) = week_factor(h)
        /\ h = 168 => week_factor(h) = later_factor(h)

\* the held messages the worker will execute under key k
PendingUnder(k) == { m \in queue : m.task_id = k /\ k \notin revoked }

\* C25: whatever requests have run and however they were interleaved, two
\* updates of the due date of the same task included, at most one work item
\* is pending under each key notify_<kind>_<task_id>, and once a run of the
\* handler has delivered a reminder no item of that task and kind is pending.
C25_OnePendingPerKey ==
    /\ \A m \in queue : Cardinality(PendingUnder(m.task_id)) <= 1
    /\ Delivered(last) =>
          \A m \in queue :
              m.args = <<last.task_id, last.run.kind>> => m.task_id \in revoked

\* two updates that read the same row have both rescheduled and committed,
\* and an item of the task is still held
C25_Witness ==
    /\ \E a, b \in Slots :
          /\ a # b
          /\ inflight[a].op = "update" /\ inflight[a].code = 200
          /\ inflight[b].op = "update" /\ inflight[b].code = 200
          /\ inflight[a].task = inflight[b].task
          /\ IssuedSubmit(inflight[a], TheTask)
          /\ IssuedSubmit(inflight[b], TheTask)
    /\ \E m \in queue : m.args[1] = TheTask

\* C26: a revoke for a task cancels exactly the pending work items of that
\* task.  The three keys it reconstructs are the keys under which schedule
\* submitted the items of the task, so none of its items stays pending; the
\* ids it revokes are keys of that task alone, and the pending items of
\* every other task are as they were.
C26_RevokeExactlyOwnItems ==
    [][\A id \in TaskIds :
          (revoked' # revoked /\ last'.task_id = id)
          => /\ \A m \in queue : m.task_id \in Keys(m.args[1])
             /\ \A m \in queue :
                   m.args[1] = id =>
                     \E k \in Kinds :
                        /\ m.args[2] = k.rtype
                        /\ m.task_id = get_predictable_task_id(id, k.suffix)
                        /\ m.task_id \in revoked'
             /\ Pending(id)' = {}
             /\ revoked' \ revoked \subseteq Keys(id)
             /\ \A other \in DOMAIN tasks \ {id} :
                   Pending(other)' = Pending(other)]_vars

\* the three items of a task have been cancelled, and the three of another
\* task are pending
C26_Witness ==
    /\ last.op \in {"complete", "delete"}
    /\ last.calls = RevokeCalls(last.task_id)
    /\ Cardinality({ m \in queue : m.args[1] = last.task_id }) = 3
    /\ Pending(last.task_id) = {}
    /\ \E other \in DOMAIN tasks \ {last.task_id} :
          Cardinality(Pending(other)) = 3

\* C27: in every reachable state the due date every task was stored with is
\* timezone-aware: creation and update hand only timezone-aware instants to
\* the table.
C27_DueDateAware ==
    \A id \in DOMAIN tasks : tasks[id].due_date_tzinfo

\* the step is a PATCH /subtasks/{id}/toggle on a subtask of task id
Toggling(id) ==
    /\ last'.op = "toggle"
    /\ last'.task_id = id
    /\ (last' # last \/ subtasks' # subtasks)

\* the step is a PATCH /tasks/{id}/status or a POST /tasks/{id}/complete on
\* task id, which its subtasks had completed
EndingCompleted(id) ==
    /\ last'.op \in {"status", "complete"}
    /\ last'.task_id = id
    /\ (last' # last \/ tasks' # tasks)
    /\ tasks[id].status = "COMPLETED"
    /\ subtasks[id] # << >>
    /\ \A i \in DOMAIN subtasks[id] : subtasks[id][i]

\* C28: a toggle succeeds; when it leaves a task that is not terminal with
\* subtasks that are all completed, the task becomes COMPLETED and a revoke
\* is issued for its three keys; a toggle on a terminal task leaves the task
\* as it is.  In whichever order the auto-completion and a manual completion
\* or cancellation follow each other, the task is terminal after the second
\* with no pending work item, and neither fails.
C28_AutoCompleteComposes ==
    [][\A id \in DOMAIN tasks :
          /\ Toggling(id) =>
                /\ last'.code = 200
                /\ subtasks'[id] # subtasks[id]
                /\ auto_complete(subtasks'[id], tasks[id].status)
                      => /\ tasks'[id].status = "COMPLETED"
                         /\ IssuedRevoke(last', id)
                         /\ Pending(id)' = {}
                /\ tasks[id].status \in Terminal
                      => /\ tasks'[id] = tasks[id]
                         /\ Pending(id)' = {}
          /\ EndingCompleted(id)
                => /\ last'.code = 200
                   /\ tasks'[id].status \in Terminal => Pending(id)' = {}]_vars

\* the row the handler run on m reads is that of a task it is to remind of
Eligible(m) ==
    /\ m.args[1] \in DOMAIN tasks
    /\ tasks[m.args[1]].status \notin Terminal
    /\ (tasks[m.args[1]].snoozed_until = None
          \/ tasks[m.args[1]].snoozed_until <= now)
    /\ tasks[m.args[1]].user_id \in DOMAIN settings

\* C29: no reminder of an eligible task is lost.  Every work item a create
\* submits is held by the worker until it is run; the run of an item whose
\* task exists, is not terminal, is not snoozed and has an owner with
\* settings attempts a send on every enabled and configured channel and
\* consumes the item; and no item is run, and skipped as task_not_found,
\* while the request that submitted it has not committed.
C29_NoReminderLost ==
    [][/\ \A r \in Slots :
            (inflight[r].pc = "idle" /\ inflight'[r].pc = "commit")
            => \A i \in DOMAIN inflight'[r].calls :
                  \E m \in queue' :
                      /\ m.task_id \notin revoked'
                      /\ m.args[1] = inflight'[r].task_id
                      /\ m.task_id = inflight'[r].calls[i].task_id
                      /\ m.eta = inflight'[r].calls[i].eta
       /\ \A m \in queue :
            Handled(m) =>
              /\ Eligible(m) =>
                    /\ last'.run.attempted
                         = enabled_channels(settings[tasks[m.args[1]].user_id])
                    /\ last'.run.outcome \in {"sent", "no_channels"}
                    /\ queue' = queue \ {m}
              /\ (\E r \in Slots : /\ inflight[r].op = "create"
                                    /\ inflight[r].pc = "commit"
                                    /\ inflight[r].task_id = m.args[1])
                    => last'.run.outcome # "task_not_found"]_vars

\* the channels that are enabled and configured in the row st
Configured(st) ==
    { c \in Channels :
        \/ c = "EMAIL" /\ st.email_enabled /\ st.email_address
        \/ c = "TELEGRAM" /\ st.telegram_enabled /\ st.telegram_chat_id
        \/ c = "DISCORD" /\ st.discord_enabled /\ st.discord_webhook_url }

\* C30: the two reminder toggles are read by schedule alone.  A request that
\* changes the NotificationSettings of a user leaves the held work items and
\* the revoked ids as they were, and the run of a 24-hour or 1-hour item on
\* an open task that was never snoozed sends on every enabled and configured
\* channel, whatever notify_24hr_before and notify_1hr_before are by then.
C30_TogglesReadAtScheduleOnly ==
    [][/\ settings' # settings => UNCHANGED <<queue, revoked, tasks>>
       /\ \A m \in queue :
            (/\ Handled(m)
             /\ m.args[2] \in {"24_HOUR", "1_HOUR"}
             /\ m.args[1] \in DOMAIN tasks
             /\ tasks[m.args[1]].status \notin Terminal
             /\ tasks[m.args[1]].snoozed_until = None)
            => /\ last'.run.attempted = Configured(settings[tasks[m.args[1]].user_id])
               /\ last'.run.outcome \in {"sent", "no_channels"}
               /\ Len(logs') = Len(logs) + Cardinality(last'.run.attempted)]_vars

\* a 24-hour reminder was delivered after both toggles had been turned off
C30_Witness ==
    /\ last.op = "send_task_reminder"
    /\ last.run.kind = "24_HOUR"
    /\ last.run.outcome = "sent"
    /\ last.run.attempted # {}
    /\ ~settings[1].notify_24hr_before
    /\ ~settings[1].notify_1hr_before
====
